---- MODULE Spec2Model ----
(***************************************************************************)
(* Upload orchestration of photo-migrator: the media_items table of the    *)
(* DatabaseManager (src/utils/database.ts), the Uploader's upload cycle    *)
(* (uploader/Uploader.ts: processUploadQueue, uploadMediaItem,             *)
(* uploadFileBytes, createMediaItem) and the remote Google Photos library  *)
(* the cycle commits to, and the AuthManager (auth/AuthManager.ts) the      *)
(* cycle asks for its access token.                                        *)
(*                                                                         *)
(* A cycle is one run of processUploadQueue.  Its steps are the points at  *)
(* which the code awaits (the credential, each HTTP request) or issues one *)
(* statement against the store; a process can be killed between any two.   *)
(***************************************************************************)
EXTENDS Integers, Sequences, FiniteSets, TLC

\* ------------------------------------------------------------- bounds
NumItems == 2
NumCycles == 2
MaxBatchSize == 2
\* media items the remote library is asked to create per local item
MaxRemote == 2
\* cycles counted per item (the counter saturates here)
MaxAttemptsTracked == 2
\* HTTP requests counted per item and cycle (the counter saturates here)
NumCallers == 2           \* concurrent callers of one AuthManager
MaxRunsTracked == 3       \* applyMigrations runs and their statements counted (the counters saturate here)
MaxRequestsTracked == 3

\* ------------------------------------------------- program constants
\* uploadFileBytes: const MAX_RETRIES = 5
MAX_RETRIES_BYTES == 5
\* createMediaItem: const MAX_RETRIES = 3
MAX_RETRIES_CREATE == 3

Items == 1 .. NumItems
Cycles == 1 .. NumCycles

\* SQL NULL of google_photos_id, error_message, sha256_hash, local_copy_path
NoId == 0
\* no upload token held (uploadMediaItem's uploadToken before uploadFileBytes resolves)
NoToken == 0
NoError == "null"
NoHash == 0
NoPath == "null"

\* the two messages uploadMediaItem stores with status 'failed'
MsgNoPath == "No local file path available for upload"
MsgNotFound == "File not found at expected path"

\* type MediaStatus
MediaStatus == {"pending", "exported", "uploaded", "failed", "skipped", "skipped_icloud"}

\* no row with that id in media_items
NoRow == [status |-> "absent"]

\* SHA256 of an item's bytes: items 1 and 2 are byte-identical copies
ContentHash(i) == IF i <= 2 THEN 1 ELSE i

Min(a, b) == IF a < b THEN a ELSE b

\* size_bytes of each item's row, in GB (the scanner stores the asset's sizeBytes)
SizeGB(i) == IF i = 1 THEN 2 ELSE 1

VARIABLES
    media_items,   \* the table: item id -> row, or NoRow
    remote,        \* Google Photos: media items created from each local item's bytes
    pc,            \* each cycle's position in processUploadQueue / uploadMediaItem
    queue,         \* each cycle's pendingItems not yet finished (head: the current item)
    attempt,       \* async-retry's attempt number in the current phase
    mediaItemId,   \* creationResult.mediaItemId of the current item
    changed,       \* what the cycle's last updateMediaStatus returned
    attempts,      \* per item: cycles that started its byte upload (saturating)
    uploadToken,   \* uploadMediaItem's uploadToken: the item whose bytes it stands for
    error,         \* the failure that ended uploadMediaItem (logged, then thrown)
    bgRetry,       \* per cycle and item: the attempt number async-retry has scheduled
                   \* for a createMediaItem call that already rejected (0: none)
    tokens,        \* AuthManager.tokens of the uploader's process
    clientCreds,   \* the credentials of AuthManager.oauth2Client
    tokenFile,     \* google-tokens.json
    grant,         \* whether Google honours the stored refresh token
    grantFailed,   \* a refresh was refused for its grant and no authorization followed
    response,      \* what the cycle's last attempt of a phase met ("none": no attempt yet)
    requests,      \* HTTP requests the cycle has sent for its current item (saturating)
    retryPhase,    \* the phase whose retry() operation is followed ("none": no operation)
    retryTimeouts, \* the operation's _timeouts: the delays it has still to hand out, in ms
    lastDelay,     \* the delay before the operation's current attempt (0: the first attempt)
    scanPc,        \* the scanner's position in addItemsToDatabase
    itemsToAdd,    \* addItemsToDatabase's itemsToAdd (ids), as its last call left it
    itemsToSkip,   \* addItemsToDatabase's itemsToSkip, as its last call left it
    schema,        \* media_items: "none" no table, "old" without is_in_icloud, "current" created
                   \* with it, "migrated" altered to have it
    migrations,    \* the migrations table: rows per id
    migPc,         \* applyMigrations's position
    appliedMigrations, \* applyMigrations's appliedMigrations
    migCalls,      \* counted: runs started, migration.apply calls, ALTERs executed, rows
                   \* inserted, runs killed between the ALTER and the INSERT
    migResult,     \* how the last applyMigrations run ended
    initPc,        \* the constructor's initializationPromise and the loadTokens it starts
    bgLoaded,      \* what that loadTokens read from the token file
    callerPc,      \* each caller's position in the AuthManager method it awaits
    callerLoaded,  \* what the caller's loadTokens read from the token file
    refreshing,    \* the caller's part in a token refresh: "own" request, "joined", "no"
    callerResult,  \* how the caller's last call ended
    inSync,        \* this.tokens.access_token is the OAuth client's access token
    tokensCleared, \* a clearTokens() call has resolved
    itemsToUpload, \* the upload command's itemsToUpload (ids), as its last run selected them
    successCount,  \* the upload command's successCount
    failureCount   \* the upload command's failureCount

\* the state of the AuthManager and of what it talks to
authVars == <<tokens, clientCreds, tokenFile, grant, grantFailed>>

\* what is observed of the HTTP exchanges of the current item
httpVars == <<response, requests>>

\* the upload cycles, the table and the remote library
uploadVars == <<media_items, remote, pc, queue, attempt, mediaItemId, changed, attempts,
                uploadToken, error, bgRetry, response, requests>>

\* one retry() operation of async-retry
retryVars == <<retryPhase, retryTimeouts, lastDelay>>

\* MediaScanner.addItemsToDatabase
scanVars == <<scanPc, itemsToAdd, itemsToSkip>>

\* the parts of the program followed on their own
\* applyMigrations
migVars == <<schema, migrations, migPc, appliedMigrations, migCalls, migResult>>

\* one AuthManager object and its callers
managerVars == <<initPc, bgLoaded, callerPc, callerLoaded, refreshing, callerResult, inSync,
                 tokensCleared>>

\* the upload command of the CLI
commandVars == <<itemsToUpload, successCount, failureCount>>

sideVars == <<retryVars, scanVars, migVars, managerVars, commandVars>>

vars == <<media_items, remote, pc, queue, attempt, mediaItemId, changed, attempts,
          uploadToken, error, bgRetry, tokens, clientCreds, tokenFile, grant, grantFailed,
          response, requests, retryPhase, retryTimeouts, lastDelay,
          scanPc, itemsToAdd, itemsToSkip,
          schema, migrations, migPc, appliedMigrations, migCalls, migResult,
          initPc, bgLoaded, callerPc, callerLoaded, refreshing, callerResult, inSync,
          tokensCleared, itemsToUpload, successCount, failureCount>>

\* ------------------------------------------------------ DatabaseManager

\* addMediaItem / addMediaBatch: INSERT with retry_count 0; the scanner and the
\* tests insert status 'pending' and no google_photos_id or error_message.
AddMediaItemRow(path, hash) ==
    [status |-> "pending", google_photos_id |-> NoId, error_message |-> NoError,
     retry_count |-> 0, local_copy_path |-> path, sha256_hash |-> hash]

\* updateMediaStatus: UPDATE ... SET status, last_attempt_at, error_message WHERE id = ?
UpdateMediaStatus(db, id, status, errorMessage) ==
    IF db[id] = NoRow THEN db
    ELSE [db EXCEPT ![id].status = status, ![id].error_message = errorMessage]

\* updateMediaStatus's return value: result.changes # 0
UpdateMediaStatusChanged(db, id) == db[id] # NoRow

\* updateGooglePhotosId: UPDATE ... SET google_photos_id WHERE id = ?
UpdateGooglePhotosId(db, id, googlePhotosId) ==
    IF db[id] = NoRow THEN db
    ELSE [db EXCEPT ![id].google_photos_id = googlePhotosId]

\* incrementRetryCount: UPDATE ... SET retry_count = retry_count + 1
IncrementRetryCount(db, id) ==
    IF db[id] = NoRow THEN db
    ELSE [db EXCEPT ![id].retry_count = @ + 1]

RECURSIVE RowsWithStatus(_, _, _)
\* the ids of the rows with the given status, in rowid order, from id i on
RowsWithStatus(db, status, i) ==
    IF i > NumItems THEN <<>>
    ELSE (IF db[i].status = status THEN <<i>> ELSE <<>>)
         \o RowsWithStatus(db, status, i + 1)

\* getMediaByStatus: SELECT * WHERE status = ? LIMIT ?
GetMediaByStatus(db, status, limit) ==
    LET all == RowsWithStatus(db, status, 1)
    IN  SubSeq(all, 1, Min(limit, Len(all)))

\* getPendingMedia
GetPendingMedia(db, limit) == GetMediaByStatus(db, "pending", limit)

\* getMediaByHash: SELECT * WHERE sha256_hash = ? LIMIT 1 (the ids found: none or one)
GetMediaByHash(db, hash) ==
    LET found == {i \in Items : db[i] # NoRow /\ db[i].sha256_hash = hash}
    IN  IF found = {} THEN {} ELSE {CHOOSE i \in found : \A j \in found : i <= j}

\* ------------------------------------------------------------- state

PCs == {"idle", "getToken", "auth_refresh", "auth_store", "auth_write", "auth_clear",
        "preflight", "bytes", "create", "setStatus", "setId", "returned", "catch"}

\* no failure
NoFailure == [phase |-> "none", cause |-> "none"]

TypeOK ==
    /\ \A i \in Items :
          \/ media_items[i] = NoRow
          \/ /\ media_items[i].status \in MediaStatus
             /\ media_items[i].google_photos_id \in 0 .. MaxRemote
             /\ media_items[i].retry_count \in Nat
    /\ remote \in [Items -> 0 .. MaxRemote]
    /\ pc \in [Cycles -> PCs]
    /\ \A c \in Cycles : (pc[c] = "idle") <=> (queue[c] = <<>>)
    /\ attempt \in [Cycles -> 0 .. (MAX_RETRIES_BYTES + 1)]
    /\ mediaItemId \in [Cycles -> 0 .. MaxRemote]
    /\ attempts \in [Items -> 0 .. MaxAttemptsTracked]
    /\ uploadToken \in [Cycles -> 0 .. NumItems]
    /\ \A c \in Cycles : error[c].phase \in {"none", "auth", "bytes", "create"}
    /\ bgRetry \in [Cycles -> [Items -> 0 .. (MAX_RETRIES_CREATE + 1)]]
    /\ tokens \in {"null", "set"}
    /\ clientCreds \in {"empty", "fresh", "expired"}
    /\ tokenFile \in {"absent", "fresh", "expired", "partial"}
    /\ grant \in {"none", "valid"}
    /\ grantFailed \in BOOLEAN
    /\ response \in [Cycles -> STRING]
    /\ requests \in [Cycles -> 0 .. MaxRequestsTracked]
    /\ retryPhase \in {"none", "bytes", "create"}
    /\ retryTimeouts \in Seq(Nat)
    /\ lastDelay \in Nat
    /\ scanPc \in {"idle", "batch"}
    /\ itemsToAdd \subseteq Items
    /\ itemsToSkip \subseteq Items
    /\ schema \in {"none", "old", "current", "migrated"}
    /\ migPc \in {"idle", "loop", "alter", "record"}
    /\ migResult \in {"none", "running", "ok", "error", "killed"}
    /\ initPc \in {"config", "reading", "read", "done"}
    /\ bgLoaded \in {"absent", "fresh", "expired"}
    /\ callerPc \in [1 .. NumCallers -> STRING]
    /\ callerLoaded \in [1 .. NumCallers -> {"absent", "fresh", "expired"}]
    /\ refreshing \in [1 .. NumCallers -> {"no", "own", "joined"}]
    /\ callerResult \in [1 .. NumCallers -> STRING]
    /\ inSync \in BOOLEAN
    /\ tokensCleared \in BOOLEAN
    /\ itemsToUpload \subseteq Items
    /\ successCount \in 0 .. MaxBatchSize
    /\ failureCount \in 0 .. MaxBatchSize

Init ==
    /\ media_items = [i \in Items |-> NoRow]
    /\ remote = [i \in Items |-> 0]
    /\ pc = [c \in Cycles |-> "idle"]
    /\ queue = [c \in Cycles |-> <<>>]
    /\ attempt = [c \in Cycles |-> 0]
    /\ mediaItemId = [c \in Cycles |-> NoId]
    /\ changed = [c \in Cycles |-> "none"]
    /\ attempts = [i \in Items |-> 0]
    /\ uploadToken = [c \in Cycles |-> NoToken]
    /\ error = [c \in Cycles |-> NoFailure]
    /\ bgRetry = [c \in Cycles |-> [i \in Items |-> 0]]
    /\ tokens = "null"
    /\ clientCreds = "empty"
    /\ tokenFile = "absent"
    /\ grant = "none"
    /\ grantFailed = FALSE
    /\ response = [c \in Cycles |-> "none"]
    /\ requests = [c \in Cycles |-> 0]
    /\ retryPhase = "none"
    /\ retryTimeouts = <<>>
    /\ lastDelay = 0
    /\ scanPc = "idle"
    /\ itemsToAdd = {}
    /\ itemsToSkip = {}
    /\ schema = "none"
    /\ migrations = [id \in {"2023-04-20-add-is-in-icloud"} |-> 0]
    /\ migPc = "idle"
    /\ appliedMigrations = {}
    /\ migCalls = [runs |-> 0, apply |-> 0, alter |-> 0, insert |-> 0, interrupted |-> 0]
    /\ migResult = "none"
    /\ initPc = "config"
    /\ bgLoaded = "absent"
    /\ callerPc = [c \in 1 .. NumCallers |-> "idle"]
    /\ callerLoaded = [c \in 1 .. NumCallers |-> "absent"]
    /\ refreshing = [c \in 1 .. NumCallers |-> "no"]
    /\ callerResult = [c \in 1 .. NumCallers |-> "none"]
    /\ inSync = TRUE
    /\ tokensCleared = FALSE
    /\ itemsToUpload = {}
    /\ successCount = 0
    /\ failureCount = 0

\* the item the cycle is uploading
CurItem(c) == Head(queue[c])

\* ------------------------------------------------------------ the store's clients

\* A row is inserted for an item not yet in the table (MediaScanner.addItemsToDatabase
\* skips the ids that exist; the primary key refuses a second insert).
AddMediaItem(i, path, hash) ==
    /\ media_items[i] = NoRow
    /\ media_items' = [media_items EXCEPT ![i] = AddMediaItemRow(path, hash)]
    /\ UNCHANGED <<sideVars, httpVars, remote, pc, queue, attempt, mediaItemId, changed, attempts,
                   uploadToken, error, bgRetry, authVars>>

\* ------------------------------------------------------------ Uploader

\* processUploadQueue(batchSize): select the pending items; none: return.
ProcessUploadQueue(c, batchSize) ==
    /\ pc[c] = "idle"
    /\ LET pendingItems == GetPendingMedia(media_items, batchSize)
       IN  /\ queue' = [queue EXCEPT ![c] = pendingItems]
           /\ pc' = [pc EXCEPT ![c] = IF pendingItems = <<>> THEN "idle" ELSE "getToken"]
    /\ UNCHANGED <<sideVars, httpVars, media_items, remote, attempt, mediaItemId, changed, attempts,
                   uploadToken, error, bgRetry, authVars>>

\* the failure uploadMediaItem throws when getAccessToken answers no token
\* ('Failed to obtain access token.') or rejects ('Failed to refresh access token')
NoTokenFailure == [phase |-> "auth", cause |-> "no_token"]
RefreshFailure == [phase |-> "auth", cause |-> "refresh_failed"]

\* uploadMediaItem, step 1: await authManager.getAccessToken(); no token, or a
\* rejection, leaves uploadMediaItem by an exception.
TokenOutcomes == {"token", "null", "throws"}

\* step 1 with the AuthManager reduced to its answer
GetAccessToken(c, outcome) ==
    /\ pc[c] = "getToken"
    /\ pc' = [pc EXCEPT ![c] = IF outcome = "token" THEN "preflight" ELSE "catch"]
    /\ error' = [error EXCEPT ![c] =
                    CASE outcome = "token" -> NoFailure
                      [] outcome = "null" -> NoTokenFailure
                      [] OTHER -> RefreshFailure]
    /\ UNCHANGED <<sideVars, httpVars, media_items, remote, queue, attempt, mediaItemId, changed, attempts,
                   uploadToken, bgRetry, authVars>>

\* what fs.existsSync finds at the item's path
FileStates == {"present", "missing"}

\* the file path handling as it would be without the test of the path itself: a
\* missing path is met by fs.existsSync like any other
PreflightChecksExistenceOnly(c, file) ==
    /\ pc[c] = "preflight"
    /\ LET i == CurItem(c)
       IN  IF media_items[i].local_copy_path = NoPath \/ file = "missing"
           THEN /\ media_items' = UpdateMediaStatus(media_items, i, "failed", MsgNotFound)
                /\ changed' = [changed EXCEPT ![c] =
                                  IF UpdateMediaStatusChanged(media_items, i) THEN "true" ELSE "false"]
                /\ pc' = [pc EXCEPT ![c] = "returned"]
                /\ UNCHANGED <<attempt, attempts>>
           ELSE /\ pc' = [pc EXCEPT ![c] = "bytes"]
                /\ attempt' = [attempt EXCEPT ![c] = 1]
                /\ attempts' = [attempts EXCEPT ![i] = Min(@ + 1, MaxAttemptsTracked)]
                /\ UNCHANGED <<media_items, changed>>
    /\ UNCHANGED <<sideVars, httpVars, remote, queue, mediaItemId, uploadToken, error, bgRetry, authVars>>

\* uploadMediaItem, file path handling: no local path (or only the urn: locator the
\* scanner stores as original_path), or no file there: mark failed and return.
Preflight(c, file) ==
    /\ pc[c] = "preflight"
    /\ LET i == CurItem(c)
       IN  IF media_items[i].local_copy_path = NoPath
           THEN /\ media_items' = UpdateMediaStatus(media_items, i, "failed", MsgNoPath)
                /\ changed' = [changed EXCEPT ![c] =
                                  IF UpdateMediaStatusChanged(media_items, i) THEN "true" ELSE "false"]
                /\ pc' = [pc EXCEPT ![c] = "returned"]
                /\ UNCHANGED <<attempt, attempts>>
           ELSE IF file = "missing"
           THEN /\ media_items' = UpdateMediaStatus(media_items, i, "failed", MsgNotFound)
                /\ changed' = [changed EXCEPT ![c] =
                                  IF UpdateMediaStatusChanged(media_items, i) THEN "true" ELSE "false"]
                /\ pc' = [pc EXCEPT ![c] = "returned"]
                /\ UNCHANGED <<attempt, attempts>>
           ELSE /\ pc' = [pc EXCEPT ![c] = "bytes"]
                /\ attempt' = [attempt EXCEPT ![c] = 1]
                /\ attempts' = [attempts EXCEPT ![i] = Min(@ + 1, MaxAttemptsTracked)]
                /\ UNCHANGED <<media_items, changed>>
    /\ UNCHANGED <<sideVars, httpVars, remote, queue, mediaItemId, uploadToken, error, bgRetry, authVars>>

\* what one attempt of uploadFileBytes meets
ByteResponses == {"token", "empty_file", "unexpected_status", "fs_error",
                  "401", "429", "5xx", "4xx", "timeout", "network"}
\* thrown to async-retry: the attempt is retried while retries are left
ByteRetriable == {"429", "5xx", "timeout", "network"}
\* met before the POST: the size statSync reports, or statSync / createReadStream throwing
ByteNoRequest == {"empty_file", "fs_error"}

\* one more request sent for the cycle's current item
OneMoreRequest(c) == [requests EXCEPT ![c] = Min(@ + 1, MaxRequestsTracked)]

\* what one attempt of the byte upload leaves to observe
ByteAttemptObserved(c, resp) ==
    /\ response' = [response EXCEPT ![c] = resp]
    /\ requests' = IF resp \in ByteNoRequest THEN requests ELSE OneMoreRequest(c)

\* what one attempt of the commit leaves to observe
CreateAttemptObserved(c, resp) ==
    /\ response' = [response EXCEPT ![c] = resp]
    /\ requests' = OneMoreRequest(c)
\* uploadFileBytes as it would be if the item were marked in flight once its bytes
\* are sent: the status is written before the commit
UploadFileBytesMarksInFlight(c, resp) ==
    /\ pc[c] = "bytes"
    /\ IF resp = "token"
       THEN /\ pc' = [pc EXCEPT ![c] = "create"]
            /\ attempt' = [attempt EXCEPT ![c] = 1]
            /\ uploadToken' = [uploadToken EXCEPT ![c] = CurItem(c)]
            /\ media_items' = UpdateMediaStatus(media_items, CurItem(c), "exported", NoError)
            /\ UNCHANGED error
       ELSE IF resp \in ByteRetriable /\ attempt[c] <= MAX_RETRIES_BYTES
       THEN /\ attempt' = [attempt EXCEPT ![c] = @ + 1]
            /\ UNCHANGED <<pc, media_items, uploadToken, error>>
       ELSE /\ pc' = [pc EXCEPT ![c] = "catch"]
            /\ attempt' = [attempt EXCEPT ![c] = 0]
            /\ error' = [error EXCEPT ![c] = [phase |-> "bytes", cause |-> resp]]
            /\ UNCHANGED <<media_items, uploadToken>>
    /\ ByteAttemptObserved(c, resp)
    /\ UNCHANGED <<sideVars, remote, queue, mediaItemId, changed, attempts, bgRetry, authVars>>

\* uploadFileBytes as it would be with `retries: MAX_RETRIES + 1`
UploadFileBytesOneRetryMore(c, resp) ==
    /\ pc[c] = "bytes"
    /\ IF resp = "token"
       THEN /\ pc' = [pc EXCEPT ![c] = "create"]
            /\ attempt' = [attempt EXCEPT ![c] = 1]
            /\ uploadToken' = [uploadToken EXCEPT ![c] = CurItem(c)]
            /\ UNCHANGED error
       ELSE IF resp \in ByteRetriable /\ attempt[c] <= MAX_RETRIES_BYTES + 1
       THEN /\ attempt' = [attempt EXCEPT ![c] = @ + 1]
            /\ UNCHANGED <<pc, uploadToken, error>>
       ELSE /\ pc' = [pc EXCEPT ![c] = "catch"]
            /\ attempt' = [attempt EXCEPT ![c] = 0]
            /\ error' = [error EXCEPT ![c] = [phase |-> "bytes", cause |-> resp]]
            /\ UNCHANGED uploadToken
    /\ ByteAttemptObserved(c, resp)
    /\ UNCHANGED <<sideVars, media_items, remote, queue, mediaItemId, changed, attempts,
                   bgRetry, authVars>>

\* uploadFileBytes as it would be if a 401 were thrown to async-retry like a 429
UploadFileBytesRetriesUnauthorized(c, resp) ==
    /\ pc[c] = "bytes"
    /\ IF resp = "token"
       THEN /\ pc' = [pc EXCEPT ![c] = "create"]
            /\ attempt' = [attempt EXCEPT ![c] = 1]
            /\ uploadToken' = [uploadToken EXCEPT ![c] = CurItem(c)]
            /\ UNCHANGED error
       ELSE IF resp \in (ByteRetriable \cup {"401"}) /\ attempt[c] <= MAX_RETRIES_BYTES
       THEN /\ attempt' = [attempt EXCEPT ![c] = @ + 1]
            /\ UNCHANGED <<pc, uploadToken, error>>
       ELSE /\ pc' = [pc EXCEPT ![c] = "catch"]
            /\ attempt' = [attempt EXCEPT ![c] = 0]
            /\ error' = [error EXCEPT ![c] = [phase |-> "bytes", cause |-> resp]]
            /\ UNCHANGED uploadToken
    /\ ByteAttemptObserved(c, resp)
    /\ UNCHANGED <<sideVars, media_items, remote, queue, mediaItemId, changed, attempts,
                   bgRetry, authVars>>

\* uploadFileBytes, one attempt of retry(): the upload token, a bail, or a retry.
UploadFileBytes(c, resp) ==
    /\ pc[c] = "bytes"
    /\ IF resp = "token"
       THEN /\ pc' = [pc EXCEPT ![c] = "create"]
            /\ attempt' = [attempt EXCEPT ![c] = 1]
            /\ uploadToken' = [uploadToken EXCEPT ![c] = CurItem(c)]
            /\ UNCHANGED error
       ELSE IF resp \in ByteRetriable /\ attempt[c] <= MAX_RETRIES_BYTES
       THEN /\ attempt' = [attempt EXCEPT ![c] = @ + 1]
            /\ UNCHANGED <<pc, uploadToken, error>>
       ELSE /\ pc' = [pc EXCEPT ![c] = "catch"]
            /\ attempt' = [attempt EXCEPT ![c] = 0]
            /\ error' = [error EXCEPT ![c] = [phase |-> "bytes", cause |-> resp]]
            /\ UNCHANGED uploadToken
    /\ ByteAttemptObserved(c, resp)
    /\ UNCHANGED <<sideVars, media_items, remote, queue, mediaItemId, changed, attempts,
                   bgRetry, authVars>>

\* what one attempt of createMediaItem meets: a per-item result of batchCreate
\* (created, with or without mediaItem.id; a mismatched token; an error status),
\* a malformed response, or an HTTP / network error
CreateResponses == {"created", "created_no_id", "mismatched_token", "invalid_token",
                    "api_retriable", "api_other", "invalid_response",
                    "401", "429", "5xx", "4xx", "timeout", "network"}
\* the per-item results whose status code and message disagree: "api_error_ok" has
\* an error code, the message 'OK' and no mediaItem
CreateResultsAtOdds == {"api_error_ok"}
\* thrown to async-retry with no bail before it
CreateRetriable == {"429", "5xx", "timeout", "network"}
\* bail(...) and then the catch block's final `throw error`: the call rejects at once,
\* and async-retry, handed the thrown error, still schedules the next attempt.
\* The Error thrown for the API codes 13, 14 and 8 is caught by the same catch block.
CreateBailThenThrow == {"401", "4xx", "api_retriable"}

\* createMediaItem as it would be if a transient failure of the commit sent the
\* item back to the byte upload
CreateMediaItemRestartsUpload(c, resp) ==
    /\ pc[c] = "create"
    /\ LET i == CurItem(c)
       IN  IF resp \in {"created", "created_no_id"}
           THEN /\ remote[i] < MaxRemote
                /\ remote' = [remote EXCEPT ![i] = @ + 1]
                /\ mediaItemId' = [mediaItemId EXCEPT ![c] =
                                      IF resp = "created" THEN remote[i] + 1 ELSE NoId]
                /\ pc' = [pc EXCEPT ![c] = "setStatus"]
                /\ UNCHANGED <<attempt, error, bgRetry, uploadToken>>
           ELSE IF resp = "api_error_ok"
           THEN /\ mediaItemId' = [mediaItemId EXCEPT ![c] = NoId]
                /\ pc' = [pc EXCEPT ![c] = "setStatus"]
                /\ UNCHANGED <<remote, attempt, error, bgRetry, uploadToken>>
           ELSE IF resp \in CreateRetriable /\ attempt[c] <= MAX_RETRIES_CREATE
           THEN /\ attempt' = [attempt EXCEPT ![c] = @ + 1]
                /\ pc' = [pc EXCEPT ![c] = "bytes"]
                /\ uploadToken' = [uploadToken EXCEPT ![c] = NoToken]
                /\ UNCHANGED <<remote, mediaItemId, error, bgRetry>>
           ELSE /\ pc' = [pc EXCEPT ![c] = "catch"]
                /\ attempt' = [attempt EXCEPT ![c] = 0]
                /\ error' = [error EXCEPT ![c] = [phase |-> "create", cause |-> resp]]
                /\ UNCHANGED <<remote, mediaItemId, bgRetry, uploadToken>>
    /\ CreateAttemptObserved(c, resp)
    /\ UNCHANGED <<sideVars, media_items, queue, changed, attempts, authVars>>

\* createMediaItem as it would be if an invalid upload token were thrown like the
\* API codes 13, 14 and 8 ('Throw to trigger retry')
CreateMediaItemThrowsInvalidToken(c, resp) ==
    /\ pc[c] = "create"
    /\ LET i == CurItem(c)
       IN  IF resp \in {"created", "created_no_id"}
           THEN /\ remote[i] < MaxRemote
                /\ remote' = [remote EXCEPT ![i] = @ + 1]
                /\ mediaItemId' = [mediaItemId EXCEPT ![c] =
                                      IF resp = "created" THEN remote[i] + 1 ELSE NoId]
                /\ pc' = [pc EXCEPT ![c] = "setStatus"]
                /\ UNCHANGED <<attempt, error, bgRetry>>
           ELSE IF resp = "api_error_ok"
           THEN /\ mediaItemId' = [mediaItemId EXCEPT ![c] = NoId]
                /\ pc' = [pc EXCEPT ![c] = "setStatus"]
                /\ UNCHANGED <<remote, attempt, error, bgRetry>>
           ELSE IF resp \in CreateRetriable /\ attempt[c] <= MAX_RETRIES_CREATE
           THEN /\ attempt' = [attempt EXCEPT ![c] = @ + 1]
                /\ UNCHANGED <<remote, mediaItemId, pc, error, bgRetry>>
           ELSE /\ pc' = [pc EXCEPT ![c] = "catch"]
                /\ attempt' = [attempt EXCEPT ![c] = 0]
                /\ error' = [error EXCEPT ![c] = [phase |-> "create", cause |-> resp]]
                /\ bgRetry' = [bgRetry EXCEPT ![c][i] =
                                  IF /\ resp \in (CreateBailThenThrow \cup {"invalid_token"})
                                     /\ attempt[c] <= MAX_RETRIES_CREATE
                                  THEN attempt[c] + 1 ELSE @]
                /\ UNCHANGED <<remote, mediaItemId>>
    /\ CreateAttemptObserved(c, resp)
    /\ UNCHANGED <<sideVars, media_items, queue, changed, attempts, uploadToken, authVars>>

\* createMediaItem as it would be without the comparison of the result's uploadToken
\* with the one sent: a result for another token is taken as this item's
CreateMediaItemAcceptsAnyToken(c, resp) ==
    /\ pc[c] = "create"
    /\ LET i == CurItem(c)
       IN  IF resp \in {"created", "created_no_id", "mismatched_token"}
           THEN /\ remote[i] < MaxRemote
                /\ remote' = [remote EXCEPT ![i] = @ + 1]
                /\ mediaItemId' = [mediaItemId EXCEPT ![c] =
                                      IF resp = "created_no_id" THEN NoId ELSE remote[i] + 1]
                /\ pc' = [pc EXCEPT ![c] = "setStatus"]
                /\ UNCHANGED <<attempt, error, bgRetry>>
           ELSE IF resp \in CreateRetriable /\ attempt[c] <= MAX_RETRIES_CREATE
           THEN /\ attempt' = [attempt EXCEPT ![c] = @ + 1]
                /\ UNCHANGED <<remote, mediaItemId, pc, error, bgRetry>>
           ELSE /\ pc' = [pc EXCEPT ![c] = "catch"]
                /\ attempt' = [attempt EXCEPT ![c] = 0]
                /\ error' = [error EXCEPT ![c] = [phase |-> "create", cause |-> resp]]
                /\ bgRetry' = [bgRetry EXCEPT ![c][i] =
                                  IF resp \in CreateBailThenThrow /\ attempt[c] <= MAX_RETRIES_CREATE
                                  THEN attempt[c] + 1 ELSE @]
                /\ UNCHANGED <<remote, mediaItemId>>
    /\ CreateAttemptObserved(c, resp)
    /\ UNCHANGED <<sideVars, media_items, queue, changed, attempts, uploadToken, authVars>>

\* createMediaItem, one attempt of retry(): success, {success: false}, or a retry.
\* {success: false} makes uploadMediaItem throw.
CreateMediaItem(c, resp) ==
    /\ pc[c] = "create"
    /\ LET i == CurItem(c)
       IN  IF resp \in {"created", "created_no_id"}
           THEN /\ remote[i] < MaxRemote
                /\ remote' = [remote EXCEPT ![i] = @ + 1]
                /\ mediaItemId' = [mediaItemId EXCEPT ![c] =
                                      IF resp = "created" THEN remote[i] + 1 ELSE NoId]
                /\ pc' = [pc EXCEPT ![c] = "setStatus"]
                /\ UNCHANGED <<attempt, error, bgRetry>>
           ELSE IF resp = "api_error_ok"
           THEN /\ mediaItemId' = [mediaItemId EXCEPT ![c] = NoId]
                /\ pc' = [pc EXCEPT ![c] = "setStatus"]
                /\ UNCHANGED <<remote, attempt, error, bgRetry>>
           ELSE IF resp \in CreateRetriable /\ attempt[c] <= MAX_RETRIES_CREATE
           THEN /\ attempt' = [attempt EXCEPT ![c] = @ + 1]
                /\ UNCHANGED <<remote, mediaItemId, pc, error, bgRetry>>
           ELSE /\ pc' = [pc EXCEPT ![c] = "catch"]
                /\ attempt' = [attempt EXCEPT ![c] = 0]
                /\ error' = [error EXCEPT ![c] = [phase |-> "create", cause |-> resp]]
                /\ bgRetry' = [bgRetry EXCEPT ![c][i] =
                                  IF resp \in CreateBailThenThrow /\ attempt[c] <= MAX_RETRIES_CREATE
                                  THEN attempt[c] + 1 ELSE @]
                /\ UNCHANGED <<remote, mediaItemId>>
    /\ CreateAttemptObserved(c, resp)
    /\ UNCHANGED <<sideVars, media_items, queue, changed, attempts, uploadToken, authVars>>

\* An attempt async-retry runs for a createMediaItem call that has already rejected:
\* the same request is sent again; its result goes nowhere.  (One scheduled attempt
\* per cycle and item is followed.)
BackgroundCreateMediaItem(c, i, resp) ==
    /\ bgRetry[c][i] # 0
    /\ IF resp \in {"created", "created_no_id"}
       THEN /\ remote[i] < MaxRemote
            /\ remote' = [remote EXCEPT ![i] = @ + 1]
            /\ bgRetry' = [bgRetry EXCEPT ![c][i] = 0]
       ELSE /\ bgRetry' = [bgRetry EXCEPT ![c][i] =
                              IF /\ resp \in CreateRetriable \cup CreateBailThenThrow
                                 /\ bgRetry[c][i] <= MAX_RETRIES_CREATE
                              THEN @ + 1 ELSE 0]
            /\ UNCHANGED remote
    /\ UNCHANGED <<sideVars, httpVars, media_items, pc, queue, attempt, mediaItemId, changed, attempts,
                   uploadToken, error, authVars>>

\* uploadMediaItem, step 4, first statement: updateMediaStatus(item.id, 'uploaded')
SetStatusUploaded(c) ==
    /\ pc[c] = "setStatus"
    /\ LET i == CurItem(c)
       IN  /\ media_items' = UpdateMediaStatus(media_items, i, "uploaded", NoError)
           /\ changed' = [changed EXCEPT ![c] =
                             IF UpdateMediaStatusChanged(media_items, i) THEN "true" ELSE "false"]
    /\ pc' = [pc EXCEPT ![c] = IF mediaItemId[c] # NoId THEN "setId" ELSE "returned"]
    /\ UNCHANGED <<sideVars, httpVars, remote, queue, attempt, mediaItemId, attempts, uploadToken, error,
                   bgRetry, authVars>>

\* uploadMediaItem, step 4, second statement: updateGooglePhotosId(item.id, mediaItemId)
SetGooglePhotosId(c) ==
    /\ pc[c] = "setId"
    /\ media_items' = UpdateGooglePhotosId(media_items, CurItem(c), mediaItemId[c])
    /\ pc' = [pc EXCEPT ![c] = "returned"]
    /\ UNCHANGED <<sideVars, httpVars, remote, queue, attempt, mediaItemId, changed, attempts, uploadToken,
                   error, bgRetry, authVars>>

\* the for loop of processUploadQueue moves to the next item, or the cycle ends
NextItem(c) ==
    /\ queue' = [queue EXCEPT ![c] = Tail(@)]
    /\ pc' = [pc EXCEPT ![c] = IF Len(queue[c]) > 1 THEN "getToken" ELSE "idle"]
    /\ attempt' = [attempt EXCEPT ![c] = 0]
    /\ mediaItemId' = [mediaItemId EXCEPT ![c] = NoId]
    /\ changed' = [changed EXCEPT ![c] = "none"]
    /\ uploadToken' = [uploadToken EXCEPT ![c] = NoToken]
    /\ error' = [error EXCEPT ![c] = NoFailure]
    /\ response' = [response EXCEPT ![c] = "none"]
    /\ requests' = [requests EXCEPT ![c] = 0]

\* processUploadQueue: uploadMediaItem returned ('Successfully processed item')
ItemReturned(c) ==
    /\ pc[c] = "returned"
    /\ NextItem(c)
    /\ UNCHANGED <<sideVars, media_items, remote, attempts, bgRetry, authVars>>

\* processUploadQueue as it would be with the try/catch around the loop instead of
\* inside it: the first failure ends the cycle
CatchErrorEndsCycle(c) ==
    /\ pc[c] = "catch"
    /\ queue' = [queue EXCEPT ![c] = <<>>]
    /\ pc' = [pc EXCEPT ![c] = "idle"]
    /\ attempt' = [attempt EXCEPT ![c] = 0]
    /\ mediaItemId' = [mediaItemId EXCEPT ![c] = NoId]
    /\ changed' = [changed EXCEPT ![c] = "none"]
    /\ uploadToken' = [uploadToken EXCEPT ![c] = NoToken]
    /\ error' = [error EXCEPT ![c] = NoFailure]
    /\ response' = [response EXCEPT ![c] = "none"]
    /\ requests' = [requests EXCEPT ![c] = 0]
    /\ UNCHANGED <<sideVars, media_items, remote, attempts, bgRetry, authVars>>

\* processUploadQueue's catch as it would be with the status update its comments
\* plan: the item is marked failed with the error's message
CatchErrorMarksFailed(c) ==
    /\ pc[c] = "catch"
    /\ NextItem(c)
    /\ media_items' = UpdateMediaStatus(media_items, CurItem(c), "failed", error[c].cause)
    /\ UNCHANGED <<sideVars, remote, attempts, bgRetry, authVars>>

\* processUploadQueue's catch: the error is logged; the status update and the
\* retry count are a TODO in comments
CatchError(c) ==
    /\ pc[c] = "catch"
    /\ NextItem(c)
    /\ UNCHANGED <<sideVars, media_items, remote, attempts, bgRetry, authVars>>

\* the process running the cycle dies: everything in memory is gone (the AuthManager's
\* tokens and the scheduled retries with it), the table, the token file and the
\* remote library stay as they are
Crash(c) ==
    /\ pc[c] # "idle" \/ tokens # "null" \/ \E i \in Items : bgRetry[c][i] # 0
    /\ pc' = [pc EXCEPT ![c] = "idle"]
    /\ queue' = [queue EXCEPT ![c] = <<>>]
    /\ attempt' = [attempt EXCEPT ![c] = 0]
    /\ mediaItemId' = [mediaItemId EXCEPT ![c] = NoId]
    /\ changed' = [changed EXCEPT ![c] = "none"]
    /\ uploadToken' = [uploadToken EXCEPT ![c] = NoToken]
    /\ error' = [error EXCEPT ![c] = NoFailure]
    /\ bgRetry' = [bgRetry EXCEPT ![c] = [i \in Items |-> 0]]
    /\ tokens' = "null"
    /\ clientCreds' = "empty"
    /\ response' = [response EXCEPT ![c] = "none"]
    /\ requests' = [requests EXCEPT ![c] = 0]
    /\ UNCHANGED <<sideVars, media_items, remote, attempts, tokenFile, grant, grantFailed>>

\* ------------------------------------------------------------ AuthManager

\* getAccessToken, up to the refresh: with no tokens in memory, loadTokens reads the
\* token file; no file: 'No tokens loaded', the call answers null. (A file that does
\* not parse is LoadTokensInvalid.)
AuthManagerGetAccessToken(c) ==
    /\ pc[c] = "getToken"
    /\ ~(tokens = "null" /\ tokenFile = "partial")
    /\ IF tokens = "null" /\ tokenFile = "absent"
       THEN /\ pc' = [pc EXCEPT ![c] = "catch"]
            /\ error' = [error EXCEPT ![c] = NoTokenFailure]
            /\ UNCHANGED <<tokens, clientCreds>>
       ELSE /\ pc' = [pc EXCEPT ![c] = "auth_refresh"]
            /\ tokens' = "set"
            /\ clientCreds' = IF tokens = "null" THEN tokenFile ELSE clientCreds
            /\ UNCHANGED error
    /\ UNCHANGED <<sideVars, httpVars, media_items, remote, queue, attempt, mediaItemId, changed, attempts,
                   uploadToken, bgRetry, tokenFile, grant, grantFailed>>

\* what oauth2Client.getAccessToken() does: the access token it holds, while not
\* expired; otherwise a refresh, which Google grants, refuses for the grant, or
\* which fails on the way
RefreshOutcomes == {"cached", "refreshed", "invalid_grant", "transient_error"}

\* getAccessToken, the try block up to storeTokens
OAuth2GetAccessToken(c, outcome) ==
    /\ pc[c] = "auth_refresh"
    /\ (outcome = "cached") <=> (clientCreds = "fresh")
    /\ outcome = "refreshed" => (grant = "valid" /\ clientCreds = "expired")
    /\ outcome = "invalid_grant" => grant = "none"
    /\ pc' = [pc EXCEPT ![c] = CASE outcome = "cached" -> "preflight"
                                 [] outcome = "refreshed" -> "auth_store"
                                 [] OTHER -> "auth_clear"]
    /\ clientCreds' = IF outcome = "refreshed" THEN "fresh" ELSE clientCreds
    /\ grantFailed' = (grantFailed \/ outcome = "invalid_grant")
    /\ UNCHANGED <<sideVars, httpVars, media_items, remote, queue, attempt, mediaItemId, changed, attempts,
                   uploadToken, error, bgRetry, tokens, tokenFile, grant>>

\* what a write or an unlink of the token file does
FileOutcomes == {"done", "error"}

\* storeTokens after a refresh: the file is written, or the error is logged; either
\* way getAccessToken returns the new token
StoreTokens(c, written) ==
    /\ pc[c] = "auth_store"
    /\ tokenFile' = IF written = "done" THEN "fresh" ELSE tokenFile
    /\ pc' = [pc EXCEPT ![c] = "preflight"]
    /\ UNCHANGED <<sideVars, httpVars, media_items, remote, queue, attempt, mediaItemId, changed, attempts,
                   uploadToken, error, bgRetry, tokens, clientCreds, grant, grantFailed>>

\* storeTokens seen at the file: fs.writeFile opens the token file for writing, which
\* truncates it, and the contents follow in a write of their own
StoreTokensOpens(c) ==
    /\ pc[c] = "auth_store"
    /\ tokenFile' = "partial"
    /\ pc' = [pc EXCEPT ![c] = "auth_write"]
    /\ UNCHANGED <<sideVars, httpVars, media_items, remote, queue, attempt, mediaItemId, changed, attempts,
                   uploadToken, error, bgRetry, tokens, clientCreds, grant, grantFailed>>

\* the write of the contents: done, or failed (no space, an I/O error) with the error
\* logged; either way getAccessToken returns the new token
StoreTokensWrites(c, written) ==
    /\ pc[c] = "auth_write"
    /\ tokenFile' = IF written = "done" THEN "fresh" ELSE tokenFile
    /\ pc' = [pc EXCEPT ![c] = "preflight"]
    /\ UNCHANGED <<sideVars, httpVars, media_items, remote, queue, attempt, mediaItemId, changed, attempts,
                   uploadToken, error, bgRetry, tokens, clientCreds, grant, grantFailed>>

\* getAccessToken with no tokens in memory and a token file that does not parse:
\* loadTokens' catch sets this.tokens = null, calls clearTokensOnFile (an unlink
\* error is only logged) and answers false, and getAccessToken answers null
LoadTokensInvalid(c, unlinked) ==
    /\ pc[c] = "getToken"
    /\ tokens = "null"
    /\ tokenFile = "partial"
    /\ tokenFile' = IF unlinked = "done" THEN "absent" ELSE tokenFile
    /\ pc' = [pc EXCEPT ![c] = "catch"]
    /\ error' = [error EXCEPT ![c] = NoTokenFailure]
    /\ UNCHANGED <<sideVars, httpVars, media_items, remote, queue, attempt, mediaItemId, changed, attempts,
                   uploadToken, bgRetry, tokens, clientCreds, grant, grantFailed>>

\* clearTokens as it would be if it removed the token file and kept this.tokens
ClearTokensKeepsTokens(c, unlinked) ==
    /\ pc[c] = "auth_clear"
    /\ tokenFile' = IF unlinked = "done" THEN "absent" ELSE tokenFile
    /\ pc' = [pc EXCEPT ![c] = "catch"]
    /\ error' = [error EXCEPT ![c] = RefreshFailure]
    /\ UNCHANGED <<sideVars, httpVars, media_items, remote, queue, attempt, mediaItemId, changed, attempts,
                   uploadToken, bgRetry, tokens, clientCreds, grant, grantFailed>>

\* clearTokens as it would be if it left the OAuth client's credentials in place
ClearTokensKeepsClientCredentials(c, unlinked) ==
    /\ pc[c] = "auth_clear"
    /\ tokens' = "null"
    /\ tokenFile' = IF unlinked = "done" THEN "absent" ELSE tokenFile
    /\ pc' = [pc EXCEPT ![c] = "catch"]
    /\ error' = [error EXCEPT ![c] = RefreshFailure]
    /\ UNCHANGED <<sideVars, httpVars, media_items, remote, queue, attempt, mediaItemId, changed, attempts,
                   uploadToken, bgRetry, clientCreds, grant, grantFailed>>

\* getAccessToken's catch: clearTokens (tokens = null, setCredentials({}), unlink of
\* the token file, whose failure is only logged), then 'Failed to refresh access token'
ClearTokens(c, unlinked) ==
    /\ pc[c] = "auth_clear"
    /\ tokens' = "null"
    /\ clientCreds' = "empty"
    /\ tokenFile' = IF unlinked = "done" THEN "absent" ELSE tokenFile
    /\ pc' = [pc EXCEPT ![c] = "catch"]
    /\ error' = [error EXCEPT ![c] = RefreshFailure]
    /\ UNCHANGED <<sideVars, httpVars, media_items, remote, queue, attempt, mediaItemId, changed, attempts,
                   uploadToken, bgRetry, grant, grantFailed>>

\* credentials an hour later
Aged(creds) == IF creds = "fresh" THEN "expired" ELSE creds

\* the access token's hour is over: in memory, on file, and in what a loadTokens has
\* read from the file and not yet put in memory
AccessTokenExpires ==
    /\ \/ "fresh" \in {clientCreds, tokenFile, bgLoaded}
       \/ \E c \in 1 .. NumCallers : callerLoaded[c] = "fresh"
    /\ clientCreds' = Aged(clientCreds)
    /\ tokenFile' = Aged(tokenFile)
    /\ bgLoaded' = Aged(bgLoaded)
    /\ callerLoaded' = [c \in 1 .. NumCallers |-> Aged(callerLoaded[c])]
    /\ UNCHANGED <<retryVars, scanVars, migVars, commandVars, initPc, callerPc, refreshing, callerResult,
                   inSync, tokensCleared>>
    /\ UNCHANGED <<httpVars, media_items, remote, pc, queue, attempt, mediaItemId, changed, attempts,
                   uploadToken, error, bgRetry, tokens, grant, grantFailed>>

\* the user withdraws the application's access at Google
RevokeGrant ==
    /\ grant = "valid"
    /\ grant' = "none"
    /\ UNCHANGED <<sideVars, httpVars, media_items, remote, pc, queue, attempt, mediaItemId, changed, attempts,
                   uploadToken, error, bgRetry, tokens, clientCreds, tokenFile, grantFailed>>

\* handleAuthCode, run in a process of its own (the step the login command leaves to
\* a later command): Google issues a new grant and storeTokens writes the token file
\* (a failed write is only logged)
HandleAuthCode(written) ==
    /\ grant' = "valid"
    /\ tokenFile' = IF written = "done" THEN "fresh" ELSE tokenFile
    /\ grantFailed' = FALSE
    /\ UNCHANGED <<sideVars, httpVars, media_items, remote, pc, queue, attempt, mediaItemId, changed, attempts,
                   uploadToken, error, bgRetry, tokens, clientCreds>>

\* ------------------------------------------------------------ AuthManager, called concurrently

Callers == 1 .. NumCallers

\* what the methods of the AuthManager leave alone
notManagerVars == <<uploadVars, retryVars, scanVars, migVars, commandVars, grant>>

\* loadConfigAndInitializeClient: the config is read, the OAuth client is created,
\* loadTokens is called and not awaited (its readFile is under way), and
\* initializationPromise resolves
InitializeClient ==
    /\ initPc = "config"
    /\ initPc' = "reading"
    /\ UNCHANGED <<bgLoaded, callerPc, callerLoaded, refreshing, callerResult, inSync,
                   tokensCleared, authVars, notManagerVars>>

\* the readFile of that loadTokens reads the token file
BackgroundRead ==
    /\ initPc = "reading"
    /\ bgLoaded' = tokenFile
    /\ initPc' = "read"
    /\ UNCHANGED <<callerPc, callerLoaded, refreshing, callerResult, inSync,
                   tokensCleared, authVars, notManagerVars>>

\* loadTokens after its readFile: no file, this.tokens = null; otherwise
\* this.tokens = loadedTokens and setCredentials(this.tokens)
LoadTokensContinues(loaded) ==
    IF loaded = "absent"
    THEN /\ tokens' = "null"
         /\ UNCHANGED <<clientCreds, inSync>>
    ELSE /\ tokens' = "set"
         /\ clientCreds' = loaded
         /\ inSync' = TRUE

\* the constructor's loadTokens continues
BackgroundLoaded ==
    /\ initPc = "read"
    /\ LoadTokensContinues(bgLoaded)
    /\ initPc' = "done"
    /\ UNCHANGED <<bgLoaded, callerPc, callerLoaded, refreshing, callerResult,
                   tokensCleared, tokenFile, grantFailed, notManagerVars>>

\* OAuth2Client.refreshToken as it would be without its map of pending refreshes
OAuth2RefreshTokenUncached(c) == "own"

\* OAuth2Client.refreshToken, reached from the call at line 177: while a refresh
\* with the refresh token is pending its promise is returned, otherwise a request is
\* sent
OAuth2RefreshToken(c) ==
    IF \E o \in Callers : refreshing[o] = "own" THEN "joined" ELSE "own"

\* oauth2Client.getAccessToken() up to its first await, with the credentials the
\* client holds: the access token when it has not expired; with no refresh token it
\* throws; otherwise the refresh
CallOAuth2Client(c, creds) ==
    /\ callerPc' = [callerPc EXCEPT ![c] = CASE creds = "fresh" -> "get_got"
                                            [] creds = "empty" -> "get_failed"
                                            [] OTHER -> "get_wait"]
    /\ refreshing' = IF creds = "expired"
                     THEN [refreshing EXCEPT ![c] = OAuth2RefreshToken(c)]
                     ELSE refreshing

\* getAccessToken after ensureInitialized: without tokens in memory loadTokens is
\* awaited, with tokens the OAuth client is asked
GetStart(c) ==
    /\ callerPc[c] = "idle"
    /\ initPc # "config"
    /\ IF tokens = "null"
       THEN /\ callerPc' = [callerPc EXCEPT ![c] = "get_read"]
            /\ UNCHANGED refreshing
       ELSE CallOAuth2Client(c, clientCreds)
    /\ UNCHANGED <<initPc, bgLoaded, callerLoaded, callerResult, inSync, tokensCleared,
                   authVars, notManagerVars>>

\* the readFile of the caller's loadTokens reads the token file
GetRead(c) ==
    /\ callerPc[c] = "get_read"
    /\ callerLoaded' = [callerLoaded EXCEPT ![c] = tokenFile]
    /\ callerPc' = [callerPc EXCEPT ![c] = "get_loaded"]
    /\ UNCHANGED <<initPc, bgLoaded, refreshing, callerResult, inSync, tokensCleared,
                   authVars, notManagerVars>>

\* the caller's loadTokens continues: nothing loaded, getAccessToken answers null;
\* otherwise the OAuth client is asked
GetLoaded(c) ==
    /\ callerPc[c] = "get_loaded"
    /\ LoadTokensContinues(callerLoaded[c])
    /\ IF callerLoaded[c] = "absent"
       THEN /\ callerPc' = [callerPc EXCEPT ![c] = "idle"]
            /\ callerResult' = [callerResult EXCEPT ![c] = "null"]
            /\ UNCHANGED refreshing
       ELSE /\ CallOAuth2Client(c, callerLoaded[c])
            /\ UNCHANGED callerResult
    /\ UNCHANGED <<initPc, bgLoaded, callerLoaded, tokensCleared, tokenFile, grantFailed,
                   notManagerVars>>

\* how a refresh request ends
RefreshAnswers == {"refreshed", "invalid_grant", "transient_error"}

\* the refresh request of caller o is answered: its promise settles for o and for
\* every caller that was handed the same promise
RefreshSettles(o, answer) ==
    /\ refreshing[o] = "own"
    /\ answer = "refreshed" => grant = "valid"
    /\ answer = "invalid_grant" => grant = "none"
    /\ LET settled == {c \in Callers : c = o \/ refreshing[c] = "joined"} IN
          /\ refreshing' = [c \in Callers |-> IF c \in settled THEN "no" ELSE refreshing[c]]
          /\ callerPc' = [c \in Callers |->
                             IF c \in settled
                             THEN (IF answer = "refreshed" THEN "get_got" ELSE "get_failed")
                             ELSE callerPc[c]]
    /\ clientCreds' = IF answer = "refreshed" THEN "fresh" ELSE clientCreds
    /\ inSync' = IF answer = "refreshed" THEN FALSE ELSE inSync
    /\ grantFailed' = (grantFailed \/ answer = "invalid_grant")
    /\ UNCHANGED <<initPc, bgLoaded, callerLoaded, callerResult, tokensCleared, tokens,
                   tokenFile, notManagerVars>>

\* getAccessToken with the client's answer: this.tokens gone in the meantime, the
\* comparison throws into the catch; the token this.tokens has is returned; a new
\* one is put into this.tokens and stored
GetGot(c) ==
    /\ callerPc[c] = "get_got"
    /\ IF tokens = "null"
       THEN /\ callerPc' = [callerPc EXCEPT ![c] = "get_failed"]
            /\ UNCHANGED <<callerResult, inSync>>
       ELSE IF inSync
            THEN /\ callerPc' = [callerPc EXCEPT ![c] = "idle"]
                 /\ callerResult' = [callerResult EXCEPT ![c] = "token"]
                 /\ UNCHANGED inSync
            ELSE /\ callerPc' = [callerPc EXCEPT ![c] = "get_store"]
                 /\ inSync' = TRUE
                 /\ UNCHANGED callerResult
    /\ UNCHANGED <<initPc, bgLoaded, callerLoaded, refreshing, tokensCleared, authVars,
                   notManagerVars>>

\* storeTokens of getAccessToken (a failed write is only logged), and the return
GetStore(c, written) ==
    /\ callerPc[c] = "get_store"
    /\ tokenFile' = IF written = "done" THEN "fresh" ELSE tokenFile
    /\ callerPc' = [callerPc EXCEPT ![c] = "idle"]
    /\ callerResult' = [callerResult EXCEPT ![c] = "token"]
    /\ UNCHANGED <<initPc, bgLoaded, callerLoaded, refreshing, inSync, tokensCleared,
                   tokens, clientCreds, grantFailed, notManagerVars>>

\* clearTokens up to its await: this.tokens = null and, with a client, setCredentials({})
ClearTokensInMemory ==
    /\ tokens' = "null"
    /\ clientCreds' = IF initPc = "config" THEN clientCreds ELSE "empty"

\* getAccessToken's catch calls clearTokens
GetFailed(c) ==
    /\ callerPc[c] = "get_failed"
    /\ ClearTokensInMemory
    /\ callerPc' = [callerPc EXCEPT ![c] = "get_unlink"]
    /\ UNCHANGED <<initPc, bgLoaded, callerLoaded, refreshing, callerResult, inSync,
                   tokensCleared, tokenFile, grantFailed, notManagerVars>>

\* that clearTokens resolves (an unlink error is only logged) and getAccessToken
\* throws 'Failed to refresh access token'
GetUnlink(c, unlinked) ==
    /\ callerPc[c] = "get_unlink"
    /\ tokenFile' = IF unlinked = "done" THEN "absent" ELSE tokenFile
    /\ callerPc' = [callerPc EXCEPT ![c] = "idle"]
    /\ callerResult' = [callerResult EXCEPT ![c] = "error"]
    /\ tokensCleared' = TRUE
    /\ UNCHANGED <<initPc, bgLoaded, callerLoaded, refreshing, inSync, tokens, clientCreds,
                   grantFailed, notManagerVars>>

\* clearTokens() is called: it does not wait for the initialization
ClearStart(c) ==
    /\ callerPc[c] = "idle"
    /\ ClearTokensInMemory
    /\ callerPc' = [callerPc EXCEPT ![c] = "clear_unlink"]
    /\ UNCHANGED <<initPc, bgLoaded, callerLoaded, refreshing, callerResult, inSync,
                   tokensCleared, tokenFile, grantFailed, notManagerVars>>

\* clearTokensOnFile has unlinked the file (an error is only logged): clearTokens()
\* resolves
ClearUnlink(c, unlinked) ==
    /\ callerPc[c] = "clear_unlink"
    /\ tokenFile' = IF unlinked = "done" THEN "absent" ELSE tokenFile
    /\ callerPc' = [callerPc EXCEPT ![c] = "idle"]
    /\ callerResult' = [callerResult EXCEPT ![c] = "cleared"]
    /\ tokensCleared' = TRUE
    /\ UNCHANGED <<initPc, bgLoaded, callerLoaded, refreshing, inSync, tokens, clientCreds,
                   grantFailed, notManagerVars>>

\* isAuthenticated() after ensureInitialized
IsAuthenticated(c) ==
    /\ callerPc[c] = "idle"
    /\ initPc # "config"
    /\ callerResult' = [callerResult EXCEPT ![c] = IF tokens = "set" THEN "true" ELSE "false"]
    /\ UNCHANGED <<initPc, bgLoaded, callerPc, callerLoaded, refreshing, inSync,
                   tokensCleared, authVars, notManagerVars>>

\* ------------------------------------------------------------ async-retry

\* the options uploadFileBytes hands to retry()
ByteRetryOptions ==
    [retries |-> MAX_RETRIES_BYTES, factor |-> 2, minTimeout |-> 1000, maxTimeout |-> 60000]

\* createMediaItem's options as they would be if copied from uploadFileBytes
ByteRetryOptionsForCreate == ByteRetryOptions

\* the options createMediaItem hands to retry()
CreateRetryOptions ==
    [retries |-> MAX_RETRIES_CREATE, factor |-> 2, minTimeout |-> 1000, maxTimeout |-> 30000]

RetryOptions(phase) == IF phase = "bytes" THEN ByteRetryOptions ELSE CreateRetryOptions

\* Math.random() + 1 of a randomized operation (async-retry's default), in tenths
Randoms == {10, 15, 19}

RECURSIVE Pow(_, _)
Pow(b, e) == IF e = 0 THEN 1 ELSE b * Pow(b, e - 1)

\* retry.createTimeout(attempt, opts):
\* Math.min(Math.round(random * Math.max(minTimeout, 1) * factor ^ attempt), maxTimeout)
CreateTimeout(attemptIndex, opts, random10) ==
    LET floor == IF opts.minTimeout > 1 THEN opts.minTimeout ELSE 1
        timeout == (random10 * floor * Pow(opts.factor, attemptIndex) + 5) \div 10
    IN  Min(timeout, opts.maxTimeout)

\* retry.timeouts(opts): one timeout per retry, sorted ascending
Timeouts(opts, randoms) ==
    SortSeq([k \in 1 .. opts.retries |-> CreateTimeout(k - 1, opts, randoms[k])],
            LAMBDA a, b : a < b)

\* retry(fn, opts) is called: the operation is created with its timeouts
RetryStart(phase, randoms) ==
    /\ retryPhase = "none"
    /\ retryPhase' = phase
    /\ retryTimeouts' = Timeouts(RetryOptions(phase), randoms)
    /\ lastDelay' = 0
    /\ UNCHANGED <<uploadVars, authVars, scanVars, migVars, managerVars, commandVars>>

\* op.retry(err): the attempt's error was thrown; the next timeout is shifted off
\* and the next attempt runs after it
RetryAfterDelay ==
    /\ retryPhase # "none"
    /\ retryTimeouts # <<>>
    /\ lastDelay' = Head(retryTimeouts)
    /\ retryTimeouts' = Tail(retryTimeouts)
    /\ UNCHANGED <<retryPhase, uploadVars, authVars, scanVars, migVars, managerVars, commandVars>>

\* the operation ends: an attempt resolved or bailed, or no timeout is left
RetryEnd ==
    /\ retryPhase # "none"
    /\ retryPhase' = "none"
    /\ retryTimeouts' = <<>>
    /\ lastDelay' = 0
    /\ UNCHANGED <<uploadVars, authVars, scanVars, migVars, managerVars, commandVars>>

\* ------------------------------------------------------------ MediaScanner

\* the row addItemsToDatabase builds for an asset: original_path the urn: locator,
\* no local copy, no hash, status 'pending'
ScannedRow == AddMediaItemRow(NoPath, NoHash)

\* everything but the table and the scanner
notScanVars == <<remote, pc, queue, attempt, mediaItemId, changed, attempts, uploadToken,
                 error, bgRetry, response, requests, authVars, retryVars, migVars, managerVars, commandVars>>

\* addItemsToDatabase, the loop over the scanned assets (their ids are unique):
\* getMediaById finds a row: the id is skipped; otherwise its row is put on the batch.
\* Nothing to add: the call returns.
ScanCheck(items) ==
    /\ scanPc = "idle"
    /\ itemsToSkip' = {i \in items : media_items[i] # NoRow}
    /\ itemsToAdd' = {i \in items : media_items[i] = NoRow}
    /\ scanPc' = IF itemsToAdd' = {} THEN "idle" ELSE "batch"
    /\ UNCHANGED <<media_items, notScanVars>>

\* updateLocalCopyPath(id, path) for an asset exported to a file: UPDATE media_items
\* SET local_copy_path WHERE id (no such row: nothing changes)
UpdateLocalCopyPath(i) ==
    /\ media_items[i] # NoRow
    /\ media_items[i].local_copy_path = NoPath
    /\ media_items' = [media_items EXCEPT ![i].local_copy_path = "file"]
    /\ UNCHANGED <<scanVars, notScanVars>>

\* addMediaBatch as it would be with INSERT OR REPLACE
AddMediaBatchReplaces ==
    /\ scanPc = "batch"
    /\ media_items' = [i \in Items |-> IF i \in itemsToAdd THEN ScannedRow ELSE media_items[i]]
    /\ scanPc' = "idle"
    /\ UNCHANGED <<itemsToAdd, itemsToSkip, notScanVars>>

\* addMediaBatch: the INSERTs of the batch in one transaction; an id that has got a
\* row since the check violates the primary key, the transaction is rolled back and
\* the error is logged
AddMediaBatch ==
    /\ scanPc = "batch"
    /\ media_items' =
          IF \E i \in itemsToAdd : media_items[i] # NoRow
          THEN media_items
          ELSE [i \in Items |-> IF i \in itemsToAdd THEN ScannedRow ELSE media_items[i]]
    /\ scanPc' = "idle"
    /\ UNCHANGED <<itemsToAdd, itemsToSkip, notScanVars>>

\* ------------------------------------------------------------ migrations

\* the ids of the migrations list
MigrationIds == {"2023-04-20-add-is-in-icloud"}

\* PRAGMA table_info(media_items) lists is_in_icloud
ColumnExists == schema \in {"current", "migrated"}

Counted(what) == [migCalls EXCEPT ![what] = Min(@ + 1, MaxRunsTracked)]

\* the database file is one that a version before is_in_icloud created
OpenLegacyDatabase ==
    /\ schema = "none"
    /\ migPc = "idle"
    /\ migCalls.runs = 0
    /\ schema' = "old"
    /\ UNCHANGED <<migrations, migPc, appliedMigrations, migCalls, migResult,
                   uploadVars, authVars, retryVars, scanVars, managerVars, commandVars>>

\* applyMigrations up to its loop: initialize() creates media_items (with the column)
\* if there is none, the migrations table is created if there is none, and the
\* recorded ids are read
MigrationsSelect ==
    /\ migPc = "idle"
    /\ schema' = IF schema = "none" THEN "current" ELSE schema
    /\ appliedMigrations' = {id \in MigrationIds : migrations[id] > 0}
    /\ migPc' = "loop"
    /\ migCalls' = Counted("runs")
    /\ migResult' = "running"
    /\ UNCHANGED <<migrations, uploadVars, authVars, retryVars, scanVars, managerVars, commandVars>>

\* the loop as it would be without the includes() test
MigrationLoopAppliesAll(id) ==
    /\ migPc = "loop"
    /\ migPc' = IF ColumnExists THEN "record" ELSE "alter"
    /\ migCalls' = Counted("apply")
    /\ UNCHANGED <<migResult, schema, migrations, appliedMigrations,
                   uploadVars, authVars, retryVars, scanVars, managerVars, commandVars>>

\* the loop as it would be with a migration that alters without reading the columns
MigrationLoopAltersUnchecked(id) ==
    /\ migPc = "loop"
    /\ IF id \in appliedMigrations
       THEN /\ migPc' = "idle"
            /\ migResult' = "ok"
            /\ UNCHANGED migCalls
       ELSE /\ migPc' = "alter"
            /\ migCalls' = Counted("apply")
            /\ UNCHANGED migResult
    /\ UNCHANGED <<schema, migrations, appliedMigrations,
                   uploadVars, authVars, retryVars, scanVars, managerVars, commandVars>>

\* the loop for the migration: a recorded id is skipped (the run is complete);
\* otherwise migration.apply is called and reads the columns
MigrationLoop(id) ==
    /\ migPc = "loop"
    /\ IF id \in appliedMigrations
       THEN /\ migPc' = "idle"
            /\ migResult' = "ok"
            /\ UNCHANGED migCalls
       ELSE /\ migPc' = IF ColumnExists THEN "record" ELSE "alter"
            /\ migCalls' = Counted("apply")
            /\ UNCHANGED migResult
    /\ UNCHANGED <<schema, migrations, appliedMigrations,
                   uploadVars, authVars, retryVars, scanVars, managerVars, commandVars>>

\* ALTER TABLE media_items ADD COLUMN is_in_icloud (an existing column makes it throw)
MigrationAlter ==
    /\ migPc = "alter"
    /\ IF ColumnExists
       THEN /\ migPc' = "idle"
            /\ migResult' = "error"
            /\ UNCHANGED <<schema, migCalls>>
       ELSE /\ schema' = "migrated"
            /\ migCalls' = Counted("alter")
            /\ migPc' = "record"
            /\ UNCHANGED migResult
    /\ UNCHANGED <<migrations, appliedMigrations, uploadVars, authVars, retryVars, scanVars, managerVars, commandVars>>

\* INSERT INTO migrations (id is the primary key: a second row makes it throw), and
\* the end of the loop
MigrationRecord(id) ==
    /\ migPc = "record"
    /\ IF migrations[id] > 0
       THEN /\ migResult' = "error"
            /\ UNCHANGED <<migrations, migCalls>>
       ELSE /\ migrations' = [migrations EXCEPT ![id] = @ + 1]
            /\ migCalls' = Counted("insert")
            /\ migResult' = "ok"
    /\ migPc' = "idle"
    /\ UNCHANGED <<schema, appliedMigrations, uploadVars, authVars, retryVars, scanVars, managerVars, commandVars>>

\* the process is killed inside applyMigrations
MigrationsKilled ==
    /\ migPc # "idle"
    /\ migPc' = "idle"
    /\ migResult' = "killed"
    /\ migCalls' = IF migPc = "record" /\ schema = "migrated" THEN Counted("interrupted")
                   ELSE migCalls
    /\ UNCHANGED <<schema, migrations, appliedMigrations,
                   uploadVars, authVars, retryVars, scanVars, managerVars, commandVars>>

\* ------------------------------------------------------------ specifications

\* the steps of a cycle after the access token is obtained, its requests answered
\* within byteResponses and createResponses
UploadStepWith(c, byteResponses, createResponses) ==
    \/ \E n \in 1 .. MaxBatchSize : ProcessUploadQueue(c, n)
    \/ \E f \in FileStates : Preflight(c, f)
    \/ \E r \in byteResponses : UploadFileBytes(c, r)
    \/ \E r \in createResponses : CreateMediaItem(c, r)
    \/ SetStatusUploaded(c)
    \/ SetGooglePhotosId(c)
    \/ ItemReturned(c)
    \/ CatchError(c)

UploadStep(c) == UploadStepWith(c, ByteResponses, CreateResponses)

\* one answer of each kind of outcome: success, a fault met before the request, a
\* bail, a retriable fault; for the commit also {success: false} and bail-then-throw
AuthByteResponses == {"token", "empty_file", "401", "5xx"}
AuthCreateResponses == {"created", "invalid_token", "api_other", "401", "5xx"}

\* one step of cycle c, the AuthManager answering within `outcomes`
CycleStepWith(c, outcomes) ==
    \/ \E o \in outcomes : GetAccessToken(c, o)
    \/ UploadStep(c)

CycleStep(c) == CycleStepWith(c, TokenOutcomes)

\* one step of cycle c, its access token asked of the AuthManager
AuthCycleStep(c) ==
    \/ AuthManagerGetAccessToken(c)
    \/ \E o \in RefreshOutcomes : OAuth2GetAccessToken(c, o)
    \/ \E w \in FileOutcomes : StoreTokens(c, w)
    \/ \E u \in FileOutcomes : ClearTokens(c, u)
    \/ UploadStepWith(c, AuthByteResponses, AuthCreateResponses)

\* one response of each kind a scheduled attempt can meet: created, thrown to
\* async-retry, thrown after a bail, returned
BackgroundResponses == {"created", "5xx", "401", "api_other"}

\* a retry scheduled by a createMediaItem call of cycle c comes due
BackgroundStep(c) ==
    \E i \in Items, r \in BackgroundResponses : BackgroundCreateMediaItem(c, i, r)

\* rows are inserted with or without an exported local copy, with the hash of their bytes
Insert ==
    \E i \in Items, p \in {NoPath, "file"} : AddMediaItem(i, p, ContentHash(i))

\* One uploader at a time: cycle 1 is run again and again, and may be killed.
Next ==
    \/ Insert
    \/ CycleStep(1)
    \/ BackgroundStep(1)
    \/ Crash(1)

Spec == Init /\ [][Next]_vars

\* Several uploaders on the same table (two runs of the upload command, or a
\* second processUploadQueue started while the first awaits), racing for its first row.
OverlapNext ==
    \/ \E p \in {NoPath, "file"} : AddMediaItem(1, p, ContentHash(1))
    \/ \E c \in Cycles : CycleStep(c)
    \/ \E c \in Cycles : BackgroundStep(c)
    \/ \E c \in Cycles : Crash(c)

OverlapSpec == Init /\ [][OverlapNext]_vars

\* One uploader that is never killed and always gets a credential, invoked again
\* whenever it is idle; every step it can take is eventually taken.
FairNext ==
    \/ Insert
    \/ CycleStepWith(1, {"token"})
    \/ BackgroundStep(1)

FairSpec == Init /\ [][FairNext]_vars /\ WF_vars(CycleStepWith(1, {"token"}))

\* One uploader that is never killed, whatever the AuthManager answers; every step
\* it can take is eventually taken.
UnkilledNext ==
    \/ Insert
    \/ CycleStep(1)
    \/ BackgroundStep(1)

UnkilledSpec == Init /\ [][UnkilledNext]_vars /\ WF_vars(CycleStep(1))

\* One uploader with its AuthManager, the token file, and Google's view of the grant.
AuthNext ==
    \/ Insert
    \/ AuthCycleStep(1)
    \/ BackgroundStep(1)
    \/ Crash(1)
    \/ AccessTokenExpires
    \/ RevokeGrant
    \/ \E w \in FileOutcomes : HandleAuthCode(w)

AuthSpec == Init /\ [][AuthNext]_vars

\* ------------------------------------------------------------ the upload command

\* the upload command once its authentication check has passed: the pending items
\* are selected, and with none the command returns; otherwise the counters start at 0
UploadCommand(c, batchSize) ==
    /\ pc[c] = "idle"
    /\ LET pendingItems == GetPendingMedia(media_items, batchSize)
       IN  /\ queue' = [queue EXCEPT ![c] = pendingItems]
           /\ pc' = [pc EXCEPT ![c] = IF pendingItems = <<>> THEN "idle" ELSE "getToken"]
           /\ itemsToUpload' = {pendingItems[k] : k \in 1 .. Len(pendingItems)}
    /\ successCount' = 0
    /\ failureCount' = 0
    /\ UNCHANGED <<retryVars, scanVars, migVars, managerVars>>
    /\ UNCHANGED <<httpVars, media_items, remote, attempt, mediaItemId, changed, attempts,
                   uploadToken, error, bgRetry, authVars>>

\* the command's loop: uploadMediaItem returned, successCount++ and 'Successfully
\* uploaded'
CommandItemReturned(c) ==
    /\ pc[c] = "returned"
    /\ NextItem(c)
    /\ successCount' = successCount + 1
    /\ UNCHANGED <<retryVars, scanVars, migVars, managerVars, itemsToUpload, failureCount>>
    /\ UNCHANGED <<media_items, remote, attempts, bgRetry, authVars>>

\* the command's loop: uploadMediaItem threw, failureCount++ and 'Failed to upload'
CommandCatchError(c) ==
    /\ pc[c] = "catch"
    /\ NextItem(c)
    /\ failureCount' = failureCount + 1
    /\ UNCHANGED <<retryVars, scanVars, migVars, managerVars, itemsToUpload, successCount>>
    /\ UNCHANGED <<media_items, remote, attempts, bgRetry, authVars>>

\* One run after another of the upload command, rows being added meanwhile.
CommandNext ==
    \/ Insert
    \/ \E n \in 1 .. MaxBatchSize : UploadCommand(1, n)
    \/ \E o \in TokenOutcomes : GetAccessToken(1, o)
    \/ \E f \in FileStates : Preflight(1, f)
    \/ \E r \in ByteResponses : UploadFileBytes(1, r)
    \/ \E r \in CreateResponses : CreateMediaItem(1, r)
    \/ SetStatusUploaded(1)
    \/ SetGooglePhotosId(1)
    \/ CommandItemReturned(1)
    \/ CommandCatchError(1)
    \/ BackgroundStep(1)

CommandSpec == Init /\ [][CommandNext]_vars

\* One uploader with its AuthManager whose storeTokens is seen write by write, its
\* uploads succeeding; the process can be killed at any point.
PersistNext ==
    \/ Insert
    \/ AuthManagerGetAccessToken(1)
    \/ \E u \in FileOutcomes : LoadTokensInvalid(1, u)
    \/ \E o \in RefreshOutcomes : OAuth2GetAccessToken(1, o)
    \/ StoreTokensOpens(1)
    \/ \E w \in FileOutcomes : StoreTokensWrites(1, w)
    \/ \E u \in FileOutcomes : ClearTokens(1, u)
    \/ UploadStepWith(1, {"token"}, {"created"})
    \/ Crash(1)
    \/ AccessTokenExpires
    \/ RevokeGrant
    \/ \E w \in FileOutcomes : HandleAuthCode(w)

PersistSpec == Init /\ [][PersistNext]_vars

\* One uploader that always gets a credential and whose byte uploads succeed, its
\* commits meeting every response and every per-item result.
CommitNext ==
    \/ Insert
    \/ \E n \in 1 .. MaxBatchSize : ProcessUploadQueue(1, n)
    \/ GetAccessToken(1, "token")
    \/ \E f \in FileStates : Preflight(1, f)
    \/ UploadFileBytes(1, "token")
    \/ \E r \in CreateResponses \cup CreateResultsAtOdds : CreateMediaItem(1, r)
    \/ SetStatusUploaded(1)
    \/ SetGooglePhotosId(1)
    \/ ItemReturned(1)
    \/ CatchError(1)
    \/ BackgroundStep(1)

CommitSpec == Init /\ [][CommitNext]_vars

\* The retry() operations of the two phases, one after the other, with the random
\* factors drawn for each of their timeouts.
BackoffNext ==
    \/ \E phase \in {"bytes", "create"} :
          \E randoms \in [1 .. RetryOptions(phase).retries -> Randoms] :
             RetryStart(phase, randoms)
    \/ RetryAfterDelay
    \/ RetryEnd

BackoffSpec == Init /\ [][BackoffNext]_vars

\* The scan command run again and again on libraries of any content, next to rows
\* inserted by others, to assets exported to local files, and to an upload command
\* whose requests succeed.
ScanNext ==
    \/ \E items \in (SUBSET Items) \ {{}} : ScanCheck(items)
    \/ AddMediaBatch
    \/ \E i \in Items : UpdateLocalCopyPath(i)
    \/ Insert
    \/ \E n \in 1 .. MaxBatchSize : ProcessUploadQueue(1, n)
    \/ GetAccessToken(1, "token")
    \/ \E f \in FileStates : Preflight(1, f)
    \/ UploadFileBytes(1, "token")
    \/ CreateMediaItem(1, "created")
    \/ SetStatusUploaded(1)
    \/ SetGooglePhotosId(1)
    \/ ItemReturned(1)

ScanSpec == Init /\ [][ScanNext]_vars

\* One AuthManager after its construction, getAccessToken() called by concurrent
\* callers, with the token file, the token's expiry and Google's view of the grant.
ManagerNext ==
    \/ InitializeClient
    \/ BackgroundRead
    \/ BackgroundLoaded
    \/ \E c \in Callers :
          \/ GetStart(c)
          \/ GetRead(c)
          \/ GetLoaded(c)
          \/ \E answer \in RefreshAnswers : RefreshSettles(c, answer)
          \/ GetGot(c)
          \/ \E w \in FileOutcomes : GetStore(c, w)
          \/ GetFailed(c)
          \/ \E u \in FileOutcomes : GetUnlink(c, u)
    \/ AccessTokenExpires
    \/ RevokeGrant
    \/ \E w \in FileOutcomes : HandleAuthCode(w)

ManagerSpec == Init /\ [][ManagerNext]_vars

\* A process that logged in before constructs its AuthManager and calls
\* clearTokens() and isAuthenticated(), one after the other; every unlink succeeds.
ClearNext ==
    \/ initPc = "config" /\ ~tokensCleared /\ callerPc[1] = "idle"
       /\ \E w \in FileOutcomes : HandleAuthCode(w)
    \/ InitializeClient
    \/ BackgroundRead
    \/ BackgroundLoaded
    \/ ClearStart(1)
    \/ ClearUnlink(1, "done")
    \/ IsAuthenticated(1)
    \/ AccessTokenExpires

ClearSpec == Init /\ [][ClearNext]_vars

\* applyMigrations run again and again on a new or an older database, a run
\* possibly killed at any statement, while rows are added to the store
MigrationsNext ==
    \/ OpenLegacyDatabase
    \/ Insert
    \/ MigrationsSelect
    \/ \E id \in MigrationIds : MigrationLoop(id)
    \/ MigrationAlter
    \/ \E id \in MigrationIds : MigrationRecord(id)
    \/ MigrationsKilled

MigrationsSpec == Init /\ [][MigrationsNext]_vars

\* ------------------------------------------------------------- claims

\* the cycle is inside uploadMediaItem for item i, from the byte upload on
InTransfer(c, i) ==
    /\ pc[c] \in {"bytes", "create", "setStatus", "setId"}
    /\ CurItem(c) = i

\* C1: whatever the crashes, retries and repeated cycles, a local item is committed
\* to the remote library at most once.
C1_CommittedAtMostOnce ==
    \A i \in Items : remote[i] <= 1

\* C2: when cycles overlap, no item is in the byte upload / commit of two of them.
C2_NoItemProcessedByTwoCycles ==
    \A c1, c2 \in Cycles : \A i \in Items :
        (c1 # c2 /\ InTransfer(c1, i)) => ~InTransfer(c2, i)

\* C3: a transition is a compare-and-set on the status the cycle selected the item
\* under (pending): a call that finds another status returns false and writes nothing.
C3_TransitionIsCompareAndSet ==
    [][\A c \in Cycles :
          (/\ changed[c] = "none"
           /\ changed'[c] # "none"
           /\ media_items[CurItem(c)].status # "pending")
          => (changed'[c] = "false" /\ media_items' = media_items)]_vars

\* C4: in every state, a row's google_photos_id is set iff its status is uploaded.
C4_RemoteIdIffUploaded ==
    \A i \in Items :
        media_items[i] # NoRow =>
            ((media_items[i].google_photos_id # NoId) <=> (media_items[i].status = "uploaded"))

\* C5: of two rows with the same sha256_hash at most one is ever uploaded.
C5_OneUploadPerFingerprint ==
    \A i, j \in Items :
        (/\ i # j
         /\ media_items[i] # NoRow
         /\ media_items[j] # NoRow
         /\ media_items[i].sha256_hash # NoHash
         /\ media_items[i].sha256_hash = media_items[j].sha256_hash)
        => ~(media_items[i].status = "uploaded" /\ media_items[j].status = "uploaded")

\* pending -> exported (staged) -> uploaded | failed | skipped
StatusRank(s) ==
    CASE s = "pending" -> 0
      [] s = "exported" -> 1
      [] OTHER -> 2

\* a forward move, or failed -> pending (the retry sweep)
AllowedMove(s, t) ==
    \/ s = t
    \/ s \notin {"uploaded", "skipped", "skipped_icloud", "failed"} /\ StatusRank(t) > StatusRank(s)
    \/ s = "failed" /\ t = "pending"

\* C6: a row's status only moves forward; uploaded and skipped are terminal.
C6_StatusMovesForward ==
    [][\A i \in Items :
          media_items[i] # NoRow =>
              AllowedMove(media_items[i].status, media_items'[i].status)]_vars

\* the positions of uploadMediaItem up to the commit's answer: nothing of the
\* transfer is recorded in the table yet
TwoPhasePCs == {"getToken", "preflight", "bytes", "create", "setStatus"}

C8_PendingConverges ==
    \A i \in Items :
        (media_items[i].status = "pending") ~> (media_items[i].status # "pending")

\* C9: the attempts made for an item are bounded through its retry count: every
\* attempt after the first is counted in retry_count.
C9_AttemptsBoundedByRetryCount ==
    \A i \in Items :
        media_items[i] # NoRow => attempts[i] <= media_items[i].retry_count + 1

\* C10: when a failure ends the processing of an item (processUploadQueue's catch),
\* the item's error_message holds it.
C10_FailureIsRecorded ==
    [][\A c \in Cycles :
          (pc[c] = "catch" /\ pc'[c] # "catch")
          => media_items'[CurItem(c)].error_message # NoError]_vars

\* the cycle leaves processUploadQueue's catch block for its current item
LeavesCatch(c) == pc[c] = "catch" /\ pc'[c] # "catch"

\* C11: when the commit answered an invalid or expired upload token, the failure is
\* counted in the item's retry_count and the item stays eligible for the restart
\* from the byte upload, so that a second pass that succeeds ends with retry_count 1.
C11_InvalidTokenRestartIsCounted ==
    [][\A c \in Cycles :
          (LeavesCatch(c) /\ error[c] = [phase |-> "create", cause |-> "invalid_token"])
          => LET i == CurItem(c)
             IN  /\ media_items'[i].status = "pending"
                 /\ media_items'[i].retry_count = media_items[i].retry_count + 1]_vars

\* C12: a 401 never ends an item's byte upload or commit at the first attempt: the
\* phase is tried once more, with a fresh credential, before it gives up.
C12_FirstUnauthorizedIsRetried ==
    [][\A c \in Cycles :
          (/\ pc[c] \in {"bytes", "create"}
           /\ pc'[c] = "catch"
           /\ error'[c].cause = "401")
          => attempt[c] > 1]_vars

\* C13: a transient failure of the commit is retried within the commit: the cycle
\* never goes back to the byte upload, the retry resubmits the upload token it holds,
\* and an upload that returns has set the row uploaded with the id the commit answered.
C13_TransientCommitFailureRetriedInPhase ==
    [][\A c \in Cycles :
          /\ pc[c] = "create" => pc'[c] \in {"create", "setStatus", "catch", "idle"}
          /\ (pc[c] = "create" /\ pc'[c] = "create" /\ attempt'[c] # attempt[c])
             => /\ attempt'[c] = attempt[c] + 1
                /\ attempt'[c] <= MAX_RETRIES_CREATE + 1
                /\ uploadToken'[c] = uploadToken[c]
                /\ uploadToken[c] = CurItem(c)
                /\ remote' = remote
                /\ media_items' = media_items
          /\ (pc[c] \in {"setStatus", "setId"} /\ pc'[c] = "returned")
             => /\ media_items'[CurItem(c)].status = "uploaded"
                /\ media_items'[CurItem(c)].google_photos_id = mediaItemId[c]]_vars

\* C13's case: the commit succeeded at its second attempt and the item is uploaded,
\* created once at the remote library, with its remote id stored.
C13_Witness ==
    /\ pc[1] = "returned"
    /\ attempt[1] = 2
    /\ uploadToken[1] = CurItem(1)
    /\ remote[CurItem(1)] = 1
    /\ media_items[CurItem(1)].status = "uploaded"
    /\ media_items[CurItem(1)].google_photos_id = 1

\* C14: a 4xx other than 401 and 429 ends the item's processing with that one request
\* (no further request is scheduled) and with the row marked failed.
C14_ClientFaultFailsItemAtOnce ==
    [][\A c \in Cycles :
          (LeavesCatch(c) /\ error[c].cause = "4xx")
          => LET i == CurItem(c)
             IN  /\ media_items'[i].status = "failed"
                 /\ bgRetry'[c][i] = 0]_vars

\* C15: an item whose file is missing or empty is marked failed, with no request made
\* for it, when its processing ends.
C15_MissingOrEmptyFileFailsItem ==
    [][\A c \in Cycles :
          /\ (pc[c] = "preflight" /\ pc'[c] = "returned")
             => media_items'[CurItem(c)].status = "failed"
          /\ (LeavesCatch(c) /\ error[c].cause = "empty_file")
             => media_items'[CurItem(c)].status = "failed"]_vars

\* C16: an item with no local copy yet is not marked failed by the pre-flight: it
\* stays pending, for a later cycle to select.
C16_NoLocalCopyStaysPending ==
    [][\A c \in Cycles :
          (pc[c] = "preflight" /\ pc'[c] # "idle"
             /\ media_items[CurItem(c)].local_copy_path = NoPath)
          => media_items'[CurItem(c)].status = "pending"]_vars

\* the item is among those the cycle selected, behind the current one
Waiting(c, i) == \E k \in 2 .. Len(queue[c]) : queue[c][k] = i

\* C17: whatever happens to the items before it, every item a cycle selected is
\* attempted: it becomes the cycle's current item, at the start of uploadMediaItem.
C17_EverySelectedItemIsAttempted ==
    /\ [][\A c \in Cycles :
             (pc[c] \in {"returned", "catch"} /\ pc'[c] \notin {"returned", "catch"}
                /\ Len(queue[c]) > 1)
             => (pc'[c] = "getToken" /\ queue'[c] = Tail(queue[c]))]_vars
    /\ \A i \in Items :
          Waiting(1, i) ~> (pc[1] = "getToken" /\ CurItem(1) = i)

\* C17's case: item 1 was selected ahead of item 2 and has just failed, by an
\* exception (it is still pending) or in the pre-flight, and item 2 is attempted.
C17_Witness ==
    /\ pc[1] = "preflight"
    /\ queue[1] = <<2>>
    /\ media_items[1] # NoRow
    /\ \/ media_items[1].status = "pending" /\ attempts[1] >= 1
       \/ media_items[1].status = "failed"

ByteAttempt(c) ==
    /\ pc[c] = "bytes"
    /\ pc'[c] # "idle"
    /\ attempt'[c] # attempt[c] \/ pc'[c] # "bytes"

\* one attempt of the commit is answered
CreateAttempt(c) ==
    /\ pc[c] = "create"
    /\ pc'[c] # "idle"
    /\ attempt'[c] # attempt[c] \/ pc'[c] # "create"

\* C24: under a persistent transient fault the retry loop of a phase ends: a phase
\* makes at most 1 + 5 (byte upload) or 1 + 3 (commit) attempts, the transient answer
\* to the last one ends the item's processing with the row as it was, not uploaded,
\* and a cycle that keeps running leaves each phase.
C24_RetryLoopTerminates ==
    /\ [][\A c \in Cycles :
             /\ (ByteAttempt(c) /\ response'[c] \in ByteRetriable)
                => /\ attempt[c] <= MAX_RETRIES_BYTES + 1
                   /\ IF attempt[c] <= MAX_RETRIES_BYTES
                      THEN pc'[c] = "bytes" /\ attempt'[c] = attempt[c] + 1
                      ELSE /\ pc'[c] = "catch"
                           /\ media_items' = media_items
                           /\ media_items[CurItem(c)].status # "uploaded"
             /\ (CreateAttempt(c) /\ response'[c] \in CreateRetriable)
                => /\ attempt[c] <= MAX_RETRIES_CREATE + 1
                   /\ IF attempt[c] <= MAX_RETRIES_CREATE
                      THEN pc'[c] = "create" /\ attempt'[c] = attempt[c] + 1
                      ELSE /\ pc'[c] = "catch"
                           /\ media_items' = media_items
                           /\ media_items[CurItem(c)].status # "uploaded"
             /\ (LeavesCatch(c) /\ error[c].cause \in (ByteRetriable \cup CreateRetriable))
                => media_items'[CurItem(c)].status # "uploaded"]_vars
    /\ (pc[1] = "bytes") ~> (pc[1] # "bytes")
    /\ (pc[1] = "create") ~> (pc[1] # "create")

\* C24's case: the byte upload of an item was answered 5xx up to its last attempt and
\* the item's processing ended in the catch block, the row still pending.
C24_Witness ==
    /\ pc[1] = "catch"
    /\ error[1] = [phase |-> "bytes", cause |-> "5xx"]
    /\ requests[1] = MaxRequestsTracked
    /\ media_items[CurItem(1)].status = "pending"
    /\ remote[CurItem(1)] = 0

SafetyMarginGB == 5
MaxDiskUsageGB == 10
\* free space at the staging volume, in GB: below the reserve, and plentiful
FreeSpacesGB == {4, 20}

RECURSIVE TotalGB(_)
\* the bytes of the ids of a batch, in GB
TotalGB(batch) ==
    IF batch = <<>> THEN 0 ELSE SizeGB(Head(batch)) + TotalGB(Tail(batch))

\* C25: whatever the free space, the batch a cycle selects never totals more than
\* min(ceiling, free space - safety margin); with 4 GB free and a margin of 5 GB the
\* batch is empty.
C25_BatchWithinDiskBudget ==
    [][\A c \in Cycles :
          (pc[c] = "idle" /\ queue'[c] # queue[c])
          => \A free \in FreeSpacesGB :
                TotalGB(queue'[c]) <= Min(MaxDiskUsageGB, free - SafetyMarginGB)]_vars

\* the ceiling of a phase's retry delay, in ms: 60 s for the byte upload, 30 s for the commit
CeilingMs(phase) == IF phase = "bytes" THEN 60000 ELSE 30000

\* C23: within one phase of one item the delay before each retry is at least the
\* delay before the previous one and at most the phase's ceiling.
C23_BackoffIsMonotoneAndCapped ==
    [][(retryPhase # "none" /\ retryTimeouts' # retryTimeouts /\ retryPhase' = retryPhase)
       => /\ lastDelay' >= lastDelay
          /\ lastDelay' <= CeilingMs(retryPhase)]_vars

\* C23's case: the byte upload waits before its last retry, longer than a second.
C23_Witness ==
    /\ retryPhase = "bytes"
    /\ retryTimeouts = <<>>
    /\ lastDelay > 1000

\* C29: a scan leaves every row that exists as it is (status, retry count, remote id
\* and all), the rows it inserts are pending with retry count 0 and no remote id, and
\* the batch it found missing is inserted whole when none of it has appeared since; a
\* scan of a library whose items all have rows inserts nothing.
C29_ScanLeavesExistingRows ==
    [][(scanPc' # scanPc \/ itemsToAdd' # itemsToAdd \/ itemsToSkip' # itemsToSkip)
       => /\ \A i \in Items :
                /\ media_items[i] # NoRow => media_items'[i] = media_items[i]
                /\ (media_items[i] = NoRow /\ media_items'[i] # NoRow)
                   => /\ media_items'[i].status = "pending"
                      /\ media_items'[i].retry_count = 0
                      /\ media_items'[i].google_photos_id = NoId
          /\ (scanPc = "batch" /\ \A i \in itemsToAdd : media_items[i] = NoRow)
             => \A i \in itemsToAdd : media_items'[i] # NoRow
          /\ (scanPc = "idle" /\ scanPc' = "batch")
             => \E i \in itemsToAdd' : media_items[i] = NoRow]_vars

\* C29's case: a scan met item 1, already uploaded, and item 2, new: item 1's row is
\* as the upload left it and item 2 has entered as the scanner builds it.
C29_Witness ==
    /\ scanPc = "idle"
    /\ itemsToSkip = {1}
    /\ itemsToAdd = {2}
    /\ media_items[1].status = "uploaded"
    /\ media_items[1].google_photos_id # NoId
    /\ media_items[2] = ScannedRow

\* C30: the schema change of a migration is executed at most once and its id has at
\* most one row, exactly one after a run that completed; while the id is recorded no
\* run calls migration.apply, alters the table or inserts a row, and no run fails:
\* running applyMigrations again changes nothing.
C30_MigrationsAppliedOnce ==
    /\ [](\A id \in MigrationIds :
             /\ migCalls.alter <= 1
             /\ migrations[id] <= 1
             /\ (migResult = "ok" => (migrations[id] = 1 /\ ColumnExists)))
    /\ [][\A id \in MigrationIds :
             migrations[id] > 0
             => /\ UNCHANGED <<schema, migrations>>
                /\ migCalls'.apply = migCalls.apply
                /\ migCalls'.alter = migCalls.alter
                /\ migCalls'.insert = migCalls.insert
                /\ migResult' # "error"]_vars

\* C30's case: a second run has completed on a database that a first run migrated and
\* recorded: one schema change, one apply call, one row.
C30_Witness ==
    /\ migPc = "idle"
    /\ migResult = "ok"
    /\ migCalls.runs >= 2
    /\ migCalls.alter = 1
    /\ migCalls.apply = 1
    /\ migCalls.insert = 1
    /\ \A id \in MigrationIds : migrations[id] = 1

C22_ClearedStaysCleared ==
    tokensCleared => (tokens = "null" /\ callerResult[1] # "true")

\* C40: after a run was killed between the ALTER and the INSERT, no run alters the
\* table again and no run fails, and a run that completes has recorded the migration
\* with the one row ever inserted for it.
C40_InterruptedMigrationCompletes ==
    /\ [][migCalls.interrupted > 0
          => /\ migCalls'.alter = migCalls.alter
             /\ schema' = schema
             /\ migResult' # "error"]_vars
    /\ [](\A id \in MigrationIds :
             (migCalls.interrupted > 0 /\ migResult = "ok")
             => (migrations[id] = 1 /\ migCalls.insert = 1 /\ migCalls.alter = 1))

\* C40's case: a run was killed after its ALTER and before its INSERT, and a later
\* run has completed
C40_Witness ==
    /\ migCalls.interrupted > 0
    /\ migPc = "idle"
    /\ migResult = "ok"
    /\ migCalls.apply >= 2

\* C39: when the scan has resolved, every item it reported (the ones it skipped as
\* existing and the ones it put on its batch) has a row in the store.
C39_ScannedItemsHaveRows ==
    scanPc = "idle" => \A i \in itemsToAdd \cup itemsToSkip : media_items[i] # NoRow

\* C33: a commit request is answered only while the createMediaItem call that sent it
\* is awaited by uploadMediaItem: an item is created in the remote library only by
\* the request of the cycle's current item in its commit phase, never by a request
\* sent after that call reported failure.
C33_NoRequestAfterProcessingEnded ==
    [][\A i \in Items :
          remote'[i] > remote[i]
          => (pc[1] = "create" /\ CurItem(1) = i /\ pc'[1] = "setStatus")]_vars

\* C37: a commit attempt answered with a retriable per-item status (code 13, 14 or 8)
\* while attempts are left is followed by another attempt of the same commit, which
\* uploadMediaItem still awaits.
C37_RetriableItemStatusIsRetried ==
    [][\A c \in Cycles :
          (CreateAttempt(c) /\ response'[c] = "api_retriable"
           /\ attempt[c] <= MAX_RETRIES_CREATE)
          => (pc'[c] = "create" /\ attempt'[c] = attempt[c] + 1)]_vars

\* C32: a byte-upload request is sent only for an item whose row has its sha256_hash.
C32_FingerprintBeforeUpload ==
    [][\A c \in Cycles :
          (pc[c] = "bytes" /\ requests'[c] > requests[c])
          => media_items[CurItem(c)].sha256_hash # NoHash]_vars

\* C34: a commit result that carries a non-zero status code does not take the item to
\* status uploaded: a row is set uploaded only when the commit's last result had
\* status code 0.
C34_ErrorResultNeverUploaded ==
    [][\A c \in Cycles :
          (/\ pc[c] = "setStatus"
           /\ media_items[CurItem(c)].status # "uploaded"
           /\ media_items'[CurItem(c)].status = "uploaded")
          => response[c] \in {"created", "created_no_id"}]_vars

\* C36: stored credentials are cleared only when a refresh fails for the grant (invalid
\* or revoked): a refresh that fails while Google still honours the grant does not
\* take getAccessToken to clearTokens, and clearTokens runs in getAccessToken only
\* after a refresh was refused for the grant.
C36_TransientRefreshFailureKeepsCredentials ==
    [][\A c \in Cycles :
          /\ (pc[c] = "auth_refresh" /\ grant = "valid") => pc'[c] # "auth_clear"
          /\ (pc[c] = "auth_clear" /\ pc'[c] = "catch") => grantFailed]_vars
\* C31: a refreshed credential is persisted atomically and before memory is updated:
\* the token file never holds a partial credential, whatever fails or dies while it
\* is written, and the OAuth client holds an unexpired access token only when the
\* token file holds it too.
C31_RefreshedCredentialPersistedAtomically ==
    /\ tokenFile # "partial"
    /\ clientCreds = "fresh" => tokenFile = "fresh"
\* C35: the remote id stored for an item comes from a commit result that carries the
\* transfer token of the item's own byte upload: a result with another token ends the
\* item's processing with the row and the id in hand untouched, and a cycle writes
\* 'uploaded' or an id only while it holds its item's token and its last result was
\* one for that token, the id written being that result's.
C35_StoredIdComesFromOwnToken ==
    [][\A c \in Cycles :
          /\ (CreateAttempt(c) /\ response'[c] = "mismatched_token")
                => /\ pc'[c] = "catch"
                   /\ mediaItemId'[c] = NoId
                   /\ media_items' = media_items
          /\ (pc[c] \in {"setStatus", "setId"} /\ media_items' # media_items)
                => /\ uploadToken[c] = CurItem(c)
                   /\ response[c] # "mismatched_token"
          /\ (pc[c] = "setId" /\ pc'[c] = "returned")
                => /\ response[c] = "created"
                   /\ media_items'[CurItem(c)].google_photos_id = mediaItemId[c]]_vars

C35_Witness ==
    /\ pc[1] = "catch"
    /\ response[1] = "mismatched_token"
    /\ error[1] = [phase |-> "create", cause |-> "mismatched_token"]
    /\ uploadToken[1] = CurItem(1)
    /\ media_items[CurItem(1)].status = "pending"
    /\ media_items[CurItem(1)].google_photos_id = NoId
\* C38: when a run of the upload command has ended, its success count is the number
\* of the items it selected whose status is uploaded (they were pending when
\* selected), and the command counts an item as a success only with its row uploaded:
\* an item marked failed in pre-flight is not counted.
C38_SuccessCountIsUploadedCount ==
    /\ [](pc[1] = "idle" =>
            successCount = Cardinality({i \in itemsToUpload : media_items[i].status = "uploaded"}))
    /\ [][(pc[1] = "returned" /\ successCount' > successCount)
             => media_items[CurItem(1)].status = "uploaded"]_vars
====
